---------------------------- MODULE Spec2Model ----------------------------
(***************************************************************************)
(* Crypto payment verification and credit settlement of the poker-backend  *)
(* (routes/payments.js, models/CryptoPayment.js, models/Transaction.js,    *)
(* models/User.js, utils/cryptoRates.js, utils/blockchainVerification.js). *)
(*                                                                         *)
(* Every request handler is cut at its awaits: one action per database,    *)
(* RPC or HTTP call, together with the synchronous code that follows it.   *)
(* Amounts are counted in 0.01 token, rates and USD prices in 0.01 USD,    *)
(* so a USD value is amount * rate in units of 0.0001 USD.  Time is        *)
(* counted in minutes.                                                     *)
(***************************************************************************)
EXTENDS Integers, FiniteSets, Sequences, TLC

(* ------------------------------ bounds -------------------------------- *)

\* The clock runs from 0 to MaxTime minutes.
MaxTime == 2

(* ------------------------- program constants -------------------------- *)

\* USD_PER_CREDIT = 0.45, in units of 0.0001 USD.
USD_PER_CREDIT == 4500

\* ONE_MINUTE_MS, the rate cache's time to live, in minutes.
ONE_MINUTE_MS == 1

\* CRYPTO_PAYMENT_EXPIRY_MINUTES as configured in the modelled deployment.
ExpiryMinutes == 1

\* availableUsage's schema default.
DefaultAvailableUsage == 40

\* null, for the numeric fields whose schema default is null.
NullAmount == -1

\* minConfirmations of the BEP20 verifier.
BscMinConfirmations == 3

\* minConfirmations of the SOL verifier (advisory).
SolMinConfirmations == 32

\* The BEP20 verifier's dust floor, 0.01 USDT.
BscMinAmount == 1

\* SOL_USD_FALLBACK_RATE / USDT_USD_FALLBACK_RATE: 0 stands for unset.
SolUsdFallbackRate == 0
UsdtUsdFallbackRate == 0

\* The fallback of getUsdtUsdRate, 1.0 USD.
UsdtDefaultFallback == 100

\* The price of the one plan of the modelled deployment, in 0.01 USD.
PlanPrice == 999

(* ------------------------------ domains ------------------------------- *)

Users == {"u1", "u2"}
Networks == {"BEP20", "SOL"}
\* paymentIds in the order create-crypto-payment hands them out.
PaymentIds == {1, 2}
Slots == {"r1", "r2"}

\* Transaction hashes a client may submit; NoHash is a missing txnHash.
Hashes == {"hSol", "hDust", "hBep"}
NoHash == "none"

\* Wallets configured per network (BEP20_WALLET_ADDRESS, SOL_WALLET_ADDRESS).
WalletOf(net) == IF net = "BEP20" THEN "0xWallet" ELSE "SolWallet"

\* memo written by create-crypto-payment (TXN-<user>-<payment>).
MemoOf(p) == IF p = 1 THEN "TXN-1" ELSE "TXN-2"

\* token chosen by create-crypto-payment.
TokenOf(net) == IF net = "BEP20" THEN "USDT" ELSE "SOL"

\* Rates the upstream price feed may answer, in 0.01 USD.
SolRates == {2000}
UsdtRates == {100}

\* cryptoNetwork's enum in the Transaction schema (null aside).
CryptoNetworkEnum == {"SOL", "USDT", "USDC"}

(* ------------------------------- state -------------------------------- *)

VARIABLES
  now,        \* the wall clock (Date.now / new Date), in minutes
  payments,   \* the CryptoPayment collection, by paymentId
  txns,       \* the Transaction collection, in insertion order (_id = index)
  users,      \* the User collection
  cache,      \* cryptoRates' process-wide cache
  env,        \* process.env: the configured fallback rates (0 is unset)
  req,        \* the verify-crypto-transaction request of each slot
  probe       \* a direct call of one function: its arguments and its result

vars == <<now, payments, txns, users, cache, env, req, probe>>

(* ------------------------------- chain -------------------------------- *)

\* Blocks the BSC head gains per minute in the model, and the depth of the
\* BEP20 transfer at time 0.
BscBlocksPerTick == 3
BscDepthAtStart == 2

\* What the two chains hold for each hash.  depth is currentBlock minus
\* the receipt's blockNumber; the BSC head advances with the clock.
ChainTx(h) ==
  CASE h = "hSol"  -> [net |-> "SOL", ok |-> TRUE, to |-> "SolWallet",
                       amount |-> 100, depth |-> 40]
    [] h = "hDust" -> [net |-> "SOL", ok |-> TRUE, to |-> "SolWallet",
                       amount |-> 1, depth |-> 5]
    [] h = "hBep"  -> [net |-> "BEP20", ok |-> TRUE, to |-> "0xwallet",
                       amount |-> 1000,
                       depth |-> BscDepthAtStart + BscBlocksPerTick * now]
    [] OTHER       -> [net |-> "none", ok |-> FALSE, to |-> "none",
                       amount |-> 0, depth |-> 0]

\* null, for the memo argument and for an address that is not known.
NoMemo == "none"

\* A verifier's failure result; current is the confirmation count that the
\* error message states, when it states one.
NotVerified(err) ==
  [verified |-> FALSE, amount |-> NullAmount, fromAddress |-> "none",
   confirmationCount |-> 0, error |-> err, current |-> NullAmount]

\* toLowerCase on the addresses of the model.
ToLower(a) == IF a = "0xWallet" THEN "0xwallet" ELSE a

\* What the BSC node answers for a hash of the model: getTransactionReceipt
\* (status, logs), getBlockNumber minus the receipt's block (depth), and
\* getTransaction (tx; data is "none" for a plain transfer call).
BscRpc(h, rpcUp) ==
  LET c == ChainTx(h) IN
  [up |-> rpcUp,
   receipt |-> [found |-> c.net = "BEP20",
                status |-> IF c.ok THEN 1 ELSE 0,
                depth |-> c.depth,
                logs |-> IF c.net = "BEP20"
                         THEN <<[address |-> "usdt", topic |-> "Transfer",
                                 from |-> "0xSender", to |-> c.to,
                                 value |-> c.amount]>>
                         ELSE <<>>],
   tx |-> [found |-> c.net = "BEP20", data |-> "none"]]

\* The confirmation test accepting one block less.
EnoughBscConfirmationsLessOne(confirmationCount) ==
  confirmationCount >= BscMinConfirmations - 1

\* confirmationCount < minConfirmations is the refusal (lines 51-52).
EnoughBscConfirmations(confirmationCount) ==
  confirmationCount >= BscMinConfirmations

\* The indexes of the logs that the loop of lines 89-91 stops at: emitted
\* by the USDT contract, with the Transfer signature as first topic.
UsdtTransfers(logs) ==
  {i \in DOMAIN logs :
     logs[i].address = "usdt" /\ logs[i].topic = "Transfer"}

\* verifyBEP20Transaction.  rpc holds the node's answers; rpc.up = FALSE is
\* any error the RPC client throws, which the function catches and returns
\* as a result, as it does the TypeError of reading tx.data when a memo is
\* given and getTransaction answers null.  Only the first USDT Transfer log
\* is examined (the loop returns or breaks there).  value counts 0.01 USDT;
\* 0 is any amount below 0.01.
verifyBEP20Transaction(rpc, expectedToAddress, memo) ==
  LET receipt == rpc.receipt
      T == UsdtTransfers(receipt.logs)
      log == receipt.logs[CHOOSE i \in T : \A j \in T : i <= j]
  IN
  IF ~rpc.up THEN NotVerified("rpc error")
  ELSE IF ~receipt.found THEN NotVerified("not found")
  ELSE IF receipt.status # 1 THEN NotVerified("failed on chain")
  ELSE IF ~EnoughBscConfirmations(receipt.depth)
       THEN [NotVerified("needs confirmations")
               EXCEPT !.current = receipt.depth]
  ELSE IF memo # NoMemo /\ ~rpc.tx.found THEN NotVerified("type error")
  ELSE IF T = {} THEN NotVerified("transfer not found")
  ELSE IF ToLower(log.to) # ToLower(expectedToAddress)
       THEN NotVerified("recipient mismatch")
  ELSE IF log.value < BscMinAmount THEN NotVerified("amount too small")
  ELSE [verified |-> TRUE, amount |-> log.value, fromAddress |-> log.from,
        confirmationCount |-> receipt.depth, error |-> "none",
        current |-> NullAmount]

\* An instruction's data: absent, shorter than 12 bytes, or a system
\* transfer's 12 bytes, whose bytes 4..11 are the lamports (in 0.01 SOL).
NoData == [kind |-> "none", lamports |-> 0]

\* What the Solana node answers for a hash of the model: the signature
\* status, getTransaction (err, slot, message, meta) and getSlot minus the
\* transaction's slot (depth).  delta is postBalances minus preBalances at
\* the index of the expected recipient, in 0.01 SOL.
SolRpc(h, rpcUp) ==
  LET c == ChainTx(h) IN
  [up |-> rpcUp, status |-> c.net = "SOL", found |-> c.net = "SOL",
   err |-> ~c.ok, depth |-> c.depth, meta |-> TRUE,
   accountKeys |-> {"Sender", c.to}, delta |-> c.amount,
   instructions |-> <<[programId |-> "system", from |-> "Sender",
                       to |-> c.to, data |-> NoData]>>]

\* The confirmation count returned as it was computed.
ReportedSolConfirmationsRaw(confirmationCount) == confirmationCount

\* confirmationCount >= minConfirmations ? confirmationCount :
\* minConfirmations (line 374).
ReportedSolConfirmations(confirmationCount) ==
  IF confirmationCount >= SolMinConfirmations
  THEN confirmationCount ELSE SolMinConfirmations

\* Math.abs(transferAmount - expectedAmount) > 0.001, when an expected
\* amount is given (NullAmount is null: the handler passes null).
AmountMismatch(transferAmount, expectedAmount) ==
  expectedAmount # NullAmount /\ transferAmount # expectedAmount

\* The system-program instructions to the expected recipient (line 305-311).
SystemTransfers(instructions, expectedToAddress) ==
  {i \in DOMAIN instructions :
     /\ instructions[i].programId = "system"
     /\ instructions[i].to = expectedToAddress}

\* verifySOLTransaction: the balance-delta path first, then the parse of
\* the first system-program instruction to the recipient, whose amount
\* stays null when the instruction has no data or fewer than 12 bytes.
\* The memo is compared and logged only.
verifySOLTransaction(rpc, expectedToAddress, expectedAmount, memo) ==
  LET confirmationCount == IF rpc.depth > 0 THEN rpc.depth ELSE 0
      byDelta == /\ rpc.meta
                 /\ expectedToAddress \in rpc.accountKeys
                 /\ rpc.delta > 0
      S == SystemTransfers(rpc.instructions, expectedToAddress)
      ins == rpc.instructions[CHOOSE i \in S : \A j \in S : i <= j]
      parsed == IF ins.data.kind = "full" THEN ins.data.lamports
                ELSE NullAmount
  IN
  IF ~rpc.up THEN NotVerified("rpc error")
  ELSE IF ~rpc.status \/ ~rpc.found THEN NotVerified("not found")
  ELSE IF rpc.meta /\ rpc.err THEN NotVerified("failed on chain")
  ELSE IF byDelta
       THEN IF AmountMismatch(rpc.delta, expectedAmount)
            THEN NotVerified("amount mismatch")
            ELSE [verified |-> TRUE, amount |-> rpc.delta,
                  fromAddress |-> IF "Sender" \in rpc.accountKeys
                                  THEN "Sender" ELSE "none",
                  confirmationCount |->
                     ReportedSolConfirmations(confirmationCount),
                  error |-> "none", current |-> NullAmount]
  ELSE IF ~rpc.meta \/ S = {} THEN NotVerified("transfer not found")
  ELSE IF parsed # NullAmount /\ AmountMismatch(parsed, expectedAmount)
       THEN NotVerified("amount mismatch")
  ELSE [verified |-> TRUE, amount |-> parsed, fromAddress |-> ins.from,
        confirmationCount |-> ReportedSolConfirmations(confirmationCount),
        error |-> "none", current |-> NullAmount]

(* ------------------------------ records ------------------------------ *)

\* A paymentId no record has yet.
NoPayment ==
  [userId |-> "none", network |-> "none", status |-> "absent",
   transactionHash |-> NoHash, expiresAt |-> 0,
   verifiedAmount |-> NullAmount, amount |-> 0]

NoResp ==
  [outcome |-> "none", success |-> FALSE, quotaAdded |-> 0,
   transactionId |-> 0, alreadyProcessed |-> FALSE, cause |-> "none"]

IdleReq ==
  [pc |-> "idle", route |-> "none", userId |-> "none", paymentId |-> 0,
   txnHash |-> NoHash,
   doc |-> NoPayment, mod |-> {}, st0 |-> "none", late |-> FALSE,
   ver |-> NullAmount, t0 |-> 0, spent |-> 0, usd |-> NullAmount,
   quota |-> 0, tid |-> 0, feed |-> NullAmount,
   resp |-> NoResp, prev |-> [resp |-> NoResp, quota |-> 0], odd |-> FALSE]

\* No function is called directly.
NoProbe == [fn |-> "none"]

\* The collections, the clock and the cache when the server starts.
InitStores ==
  /\ now = 0
  /\ payments = [p \in PaymentIds |-> NoPayment]
  /\ txns = <<>>
  /\ users = [u \in Users |->
               [availableUsage |-> DefaultAvailableUsage, totalSpent |-> 0]]
  /\ cache = [solUsd |-> [value |-> 0, expiresAt |-> 0],
              usdtUsd |-> [value |-> 0, expiresAt |-> 0]]
  /\ req = [r \in Slots |-> IdleReq]

NoFallbacks ==
  [SOL_USD_FALLBACK_RATE |-> SolUsdFallbackRate,
   USDT_USD_FALLBACK_RATE |-> UsdtUsdFallbackRate]

Init ==
  /\ InitStores
  /\ env = NoFallbacks
  /\ probe = NoProbe


(* ------------------------ mongoose documents -------------------------- *)

\* Assignment to a path of a loaded document: mongoose marks the path
\* modified only when the value differs from the document's current one.
DocSet(q, f, v) ==
  IF q.doc[f] = v THEN q
  ELSE [q EXCEPT !.doc = [@ EXCEPT ![f] = v], !.mod = @ \cup {f}]

\* document.save(): $set of the modified paths, nothing else.
Saved(q) ==
  [f \in DOMAIN NoPayment |->
     IF f \in q.mod THEN q.doc[f] ELSE payments[q.paymentId][f]]

\* isExpired with its comparison turned around.
isExpiredInverted(doc) == now < doc.expiresAt

\* cryptoPaymentSchema.methods.isExpired
isExpired(doc) == now > doc.expiresAt

\* cryptoPaymentSchema.methods.confirm; the other fields it sets
\* (confirmedAt, verifiedFromAddress, confirmationCount) are not modelled.
confirm(q, verifiedAmount, transactionHash) ==
  DocSet(DocSet(DocSet(q, "status", "confirmed"),
                "verifiedAmount", verifiedAmount),
         "transactionHash", transactionHash)

\* cryptoPaymentSchema.methods.fail (errorMessage is not modelled).
fail(q) == DocSet(q, "status", "failed")

(* ----------------------------- responses ------------------------------ *)

Respond(q, outcome, cause) ==
  [q EXCEPT !.pc = "done", !.doc = NoPayment, !.mod = {}, !.t0 = 0,
            !.spent = 0, !.tid = 0,
            !.resp = [NoResp EXCEPT !.outcome = outcome, !.cause = cause,
                        !.alreadyProcessed =
                          outcome \in {"alreadyConfirmed", "duplicateHash"}]]

\* The success payload built from an existing Transaction.
RespondExisting(q, t) ==
  [q EXCEPT !.pc = "done", !.doc = NoPayment, !.mod = {}, !.t0 = 0,
            !.spent = 0, !.tid = 0,
            !.resp = [outcome |-> "success", success |-> TRUE,
                      quotaAdded |-> t.quotaAmount, transactionId |-> t.id,
                      alreadyProcessed |-> TRUE, cause |-> "none"]]

(* --------------------- verify-crypto-transaction ---------------------- *)

\* An ownership check that lets every caller through.
OwnsAny(d, u) == TRUE

\* cryptoPayment.userId.toString() === userId.toString()
Owns(d, u) == d.userId = u

\* The request arrives: input validation, findByPaymentId, the ownership
\* check and the already-confirmed check.
Begin(q, u, p, h) ==
  LET b == [IdleReq EXCEPT !.route = "verify",
                           !.userId = u, !.paymentId = p, !.txnHash = h,
                           !.prev = [resp |-> q.resp, quota |-> q.quota],
                           !.odd = ~q.odd]
      d == payments[p]
  IN  IF h = NoHash THEN Respond(b, "missingFields", "none")
      ELSE IF d.status = "absent" THEN Respond(b, "notFound", "none")
      ELSE IF ~Owns(d, u) THEN Respond(b, "forbidden", "none")
      ELSE IF d.status = "confirmed"
           THEN Respond(b, "alreadyConfirmed", "none")
      ELSE [b EXCEPT !.pc = "dupCheck", !.doc = d, !.st0 = d.status,
                     !.late = (now > d.expiresAt)]

\* The users are interchangeable, so the first slot's caller is fixed.
CallersOf(r) == IF r = "r1" THEN {"u1"} ELSE Users

Start(r) ==
  /\ req[r].pc = "idle"
  /\ \E u \in CallersOf(r), p \in PaymentIds, h \in Hashes \cup {NoHash} :
        req' = [req EXCEPT ![r] = Begin(req[r], u, p, h)]
  /\ UNCHANGED <<now, payments, txns, users, cache, env, probe>>

\* The client repeats its call with the same arguments; prev keeps what the
\* call before answered, odd the parity of the number of calls.
Retry(r) ==
  /\ req[r].pc = "done"
  /\ req' = [req EXCEPT ![r] =
               Begin(req[r], req[r].userId, req[r].paymentId, req[r].txnHash)]
  /\ UNCHANGED <<now, payments, txns, users, cache, env, probe>>

\* The duplicate-hash query narrowed to the caller's own payments.
HashUsedByOwner(p, h) ==
  \E o \in PaymentIds :
     /\ o # p
     /\ payments[o].userId = payments[p].userId
     /\ payments[o].status = "confirmed"
     /\ payments[o].transactionHash = h

\* CryptoPayment.findOne({transactionHash, status: 'confirmed', _id: {$ne}})
HashUsedElsewhere(p, h) ==
  \E o \in PaymentIds :
     /\ o # p
     /\ payments[o].status = "confirmed"
     /\ payments[o].transactionHash = h

\* The duplicate-hash query returns; then the expiry check, and the
\* assignments that the next save will write.
DupCheck(r) ==
  LET q == req[r] IN
  /\ q.pc = "dupCheck"
  /\ req' = [req EXCEPT ![r] =
       IF HashUsedElsewhere(q.paymentId, q.txnHash)
       THEN Respond(q, "duplicateHash", "none")
       ELSE IF isExpired(q.doc)
       THEN [DocSet(q, "status", "expired") EXCEPT !.pc = "saveExpired"]
       ELSE [DocSet(DocSet(q, "status", "processing"),
                    "transactionHash", q.txnHash)
               EXCEPT !.pc = "saveProcessing"]]
  /\ UNCHANGED <<now, payments, txns, users, cache, env, probe>>

SaveExpired(r) ==
  LET q == req[r] IN
  /\ q.pc = "saveExpired"
  /\ payments' = [payments EXCEPT ![q.paymentId] = Saved(q)]
  /\ req' = [req EXCEPT ![r] = Respond([q EXCEPT !.mod = {}], "expired", "none")]
  /\ UNCHANGED <<now, txns, users, cache, env, probe>>

SaveProcessing(r) ==
  LET q == req[r] IN
  /\ q.pc = "saveProcessing"
  /\ payments' = [payments EXCEPT ![q.paymentId] = Saved(q)]
  /\ req' = [req EXCEPT ![r] = [q EXCEPT !.mod = {}, !.pc = "verify"]]
  /\ UNCHANGED <<now, txns, users, cache, env, probe>>

\* The chain verifier of the payment's network returns.
VerifierResult(q, rpcUp) ==
  IF q.doc.network = "BEP20"
  THEN verifyBEP20Transaction(BscRpc(q.txnHash, rpcUp), WalletOf("BEP20"),
                              MemoOf(q.paymentId))
  ELSE IF q.doc.network = "SOL"
  THEN verifySOLTransaction(SolRpc(q.txnHash, rpcUp), WalletOf("SOL"),
                            NullAmount, MemoOf(q.paymentId))
  ELSE NotVerified("unsupported network")

Verify(r) ==
  LET q == req[r] IN
  /\ q.pc = "verify"
  /\ \E rpcUp \in BOOLEAN :
       LET result == VerifierResult(q, rpcUp) IN
       req' = [req EXCEPT ![r] =
         IF ~result.verified
         THEN [fail(q) EXCEPT !.pc = "saveFailed",
                              !.resp = [NoResp EXCEPT !.cause = result.error]]
         ELSE [confirm(q, result.amount, q.txnHash)
                 EXCEPT !.pc = "saveConfirmed", !.ver = result.amount]]
  /\ UNCHANGED <<now, payments, txns, users, cache, env, probe>>

SaveFailed(r) ==
  LET q == req[r] IN
  /\ q.pc = "saveFailed"
  /\ payments' = [payments EXCEPT ![q.paymentId] = Saved(q)]
  /\ req' = [req EXCEPT ![r] =
               Respond([q EXCEPT !.mod = {}], "verificationFailed",
                       q.resp.cause)]
  /\ UNCHANGED <<now, txns, users, cache, env, probe>>

SaveConfirmed(r) ==
  LET q == req[r] IN
  /\ q.pc = "saveConfirmed"
  /\ payments' = [payments EXCEPT ![q.paymentId] = Saved(q)]
  /\ req' = [req EXCEPT ![r] = [q EXCEPT !.mod = {}, !.pc = "findPlan"]]
  /\ UNCHANGED <<now, txns, users, cache, env, probe>>

\* PaymentPlan.findById: plans are never deleted by the modelled routes.
FindPlan(r) ==
  /\ req[r].pc = "findPlan"
  /\ req' = [req EXCEPT ![r].pc = "findUser"]
  /\ UNCHANGED <<now, payments, txns, users, cache, env, probe>>

\* The floor written with < in place of <=.
NegativeCredits(dynamicCredits) == dynamicCredits < 0

\* dynamicCredits <= 0, the minimum-purchase floor.
TooFewCredits(dynamicCredits) == dynamicCredits <= 0

\* The amounts and rates of the model (0.01 token, 0.01 USD) whose product
\* in IEEE-754 doubles, divided by 0.45, lies below the integer that the
\* exact quotient is: 0.09 * 15 is 1.3499999999999999 (quotient
\* 2.9999999999999996) and 0.09 * 20 is 1.7999999999999998 (quotient
\* 3.9999999999999996).  For every other pair of the model the double
\* quotient has the floor of the exact one.
DoubleQuotientShort(amount, rate) ==
  <<amount, rate>> \in {<<9, 1500>>, <<9, 2000>>}

\* Math.floor(usdAmount / USD_PER_CREDIT) with usdAmount = amount * rate,
\* computed in doubles.
DynamicCredits(amount, rate) ==
  (amount * rate) \div USD_PER_CREDIT
    - IF DoubleQuotientShort(amount, rate) THEN 1 ELSE 0

\* Math.round(usd * 100) and parseFloat(usd.toFixed(2)): USD cents.
ToCents(usd) == (usd + 50) \div 100

\* The rate is known: the conversion to credits, the floor, and the
\* assignment of the effective USD amount (lines 1576-1618; null * rate is 0).
AfterRate(q, rate) ==
  LET amt == IF q.ver = NullAmount THEN 0 ELSE q.ver
      usd == amt * rate
      credits == DynamicCredits(amt, rate)
      k == [q EXCEPT !.usd = usd, !.quota = credits]
  IN  IF TooFewCredits(credits)
      THEN Respond(k, "insufficientAmount", "none")
      ELSE [DocSet(k, "amount", ToCents(usd)) EXCEPT !.pc = "saveAmount"]

CacheKey(net) == IF net = "SOL" THEN "solUsd" ELSE "usdtUsd"

\* The cache test both rate functions start with.
CacheFresh(c) == c.value # 0 /\ c.expiresAt > now

\* User.findById returns (users are not deleted by the modelled routes); the
\* rate function is entered and answers from its cache or sends its request.
FindUser(r) ==
  /\ req[r].pc = "findUser"
  /\ LET q == [req[r] EXCEPT !.spent = users[req[r].userId].totalSpent]
         c == cache[CacheKey(q.doc.network)]
     IN  req' = [req EXCEPT ![r] =
           IF CacheFresh(c) THEN AfterRate(q, c.value)
           ELSE [q EXCEPT !.pc = "rateFetch", !.t0 = now]]
  /\ UNCHANGED <<now, payments, txns, users, cache, env, probe>>

\* What the upstream feed may answer: a rate, or 0 for any failure (timeout,
\* non-200, a rate that is no positive number).
FeedAnswers(net) == (IF net = "SOL" THEN SolRates ELSE UsdtRates) \cup {0}

\* getSolUsdRate without its fallback branch.
getSolUsdRateNoFallback(answer) ==
  IF answer > 0 THEN [rate |-> answer, cached |-> TRUE, threw |-> FALSE]
  ELSE [rate |-> 0, cached |-> FALSE, threw |-> TRUE]

\* getSolUsdRate after its request: [rate, cached, threw].
getSolUsdRate(answer) ==
  IF answer > 0 THEN [rate |-> answer, cached |-> TRUE, threw |-> FALSE]
  ELSE IF env.SOL_USD_FALLBACK_RATE > 0
  THEN [rate |-> env.SOL_USD_FALLBACK_RATE, cached |-> FALSE, threw |-> FALSE]
  ELSE [rate |-> 0, cached |-> FALSE, threw |-> TRUE]

\* getUsdtUsdRate after its request.
getUsdtUsdRate(answer) ==
  IF answer > 0 THEN [rate |-> answer, cached |-> TRUE, threw |-> FALSE]
  ELSE IF env.USDT_USD_FALLBACK_RATE > 0
  THEN [rate |-> env.USDT_USD_FALLBACK_RATE, cached |-> TRUE, threw |-> FALSE]
  ELSE [rate |-> UsdtDefaultFallback, cached |-> TRUE, threw |-> FALSE]

RateFetch(r) ==
  LET q == req[r]
      net == q.doc.network IN
  /\ q.pc = "rateFetch"
  /\ \E answer \in FeedAnswers(net) :
       LET g == IF net = "SOL" THEN getSolUsdRate(answer)
                ELSE getUsdtUsdRate(answer)
           k == [q EXCEPT !.feed = answer] IN
       /\ cache' = IF g.cached
                   THEN [cache EXCEPT ![CacheKey(net)] =
                           [value |-> g.rate,
                            expiresAt |-> q.t0 + ONE_MINUTE_MS]]
                   ELSE cache
       /\ req' = [req EXCEPT ![r] =
            IF g.threw THEN Respond(k, "serverError", "rateUnavailable")
            ELSE AfterRate(k, g.rate)]
  /\ UNCHANGED <<now, payments, txns, users, env, probe>>

SaveAmount(r) ==
  LET q == req[r] IN
  /\ q.pc = "saveAmount"
  /\ payments' = [payments EXCEPT ![q.paymentId] = Saved(q)]
  /\ req' = [req EXCEPT ![r] =
               [q EXCEPT !.mod = {}, !.feed = NullAmount, !.pc = "findTxn"]]
  /\ UNCHANGED <<now, txns, users, cache, env, probe>>

\* The Transactions that carry hash h, by _id.
TxnsOf(h) == {i \in DOMAIN txns : txns[i].cryptoTransactionHash = h}

FirstOf(S) == CHOOSE i \in S : \A j \in S : i <= j

\* Transaction.findOne({cryptoTransactionHash}) returns.
FindTxn(r) ==
  LET q == req[r] IN
  /\ q.pc = "findTxn"
  /\ req' = [req EXCEPT ![r] =
       IF TxnsOf(q.txnHash) # {}
       THEN RespondExisting(q, txns[FirstOf(TxnsOf(q.txnHash))])
       ELSE [q EXCEPT !.pc = "createTxn"]]
  /\ UNCHANGED <<now, payments, txns, users, cache, env, probe>>

\* The schema's validators on the created document: cryptoNetwork's enum
\* and quotaAmount's min.
ValidTransaction(t) ==
  /\ t.cryptoNetwork \in CryptoNetworkEnum
  /\ t.quotaAmount >= 1
  /\ t.amount >= 0

\* The collection without its unique index.
NoUniqueIndex(t) == FALSE

\* The partial unique index on cryptoTransactionHash rejects the insert.
DuplicateKey(t) == TxnsOf(t.cryptoTransactionHash) # {}

\* The document handed to Transaction.create (lines 1642-1660).
NewTransaction(q, id) ==
  [id |-> id, userId |-> q.userId,
   amount |-> ToCents(q.usd), quotaAmount |-> q.quota,
   status |-> "succeeded", paymentMethod |-> "crypto",
   cryptoTransactionHash |-> q.txnHash,
   cryptoNetwork |-> q.doc.network,
   cryptoToken |-> TokenOf(q.doc.network),
   cryptoPaymentId |-> q.paymentId]

\* No Transaction document.
NoTransaction ==
  [id |-> 0, userId |-> "none", amount |-> 0, quotaAmount |-> 0,
   status |-> "none", paymentMethod |-> "none",
   cryptoTransactionHash |-> NoHash, cryptoNetwork |-> "none",
   cryptoToken |-> "none", cryptoPaymentId |-> 0]

\* The call going on to the credit grant without inserting the Transaction.
CreateTxnSkipped(r) ==
  LET q == req[r]
      t == NewTransaction(q, Len(txns) + 1)
  IN
  /\ q.pc = "createTxn"
  /\ IF ~ValidTransaction(t)
     THEN req' = [req EXCEPT ![r] = Respond(q, "serverError", "validation")]
     ELSE req' = [req EXCEPT ![r] = [q EXCEPT !.pc = "addQuota", !.tid = t.id]]
  /\ UNCHANGED <<now, payments, txns, users, cache, env, probe>>

\* Transaction.create (lines 1641-1661).
CreateTxn(r) ==
  LET q == req[r]
      t == NewTransaction(q, Len(txns) + 1)
  IN
  /\ q.pc = "createTxn"
  /\ IF ~ValidTransaction(t)
     THEN /\ req' = [req EXCEPT ![r] = Respond(q, "serverError", "validation")]
          /\ UNCHANGED txns
     ELSE IF DuplicateKey(t)
     THEN /\ req' = [req EXCEPT ![r] = Respond(q, "serverError", "duplicateKey")]
          /\ UNCHANGED txns
     ELSE /\ txns' = Append(txns, t)
          /\ req' = [req EXCEPT ![r] = [q EXCEPT !.pc = "addQuota", !.tid = t.id]]
  /\ UNCHANGED <<now, payments, users, cache, env, probe>>

\* userSchema.methods.addQuota.  The User model shipped with the routes
\* defines neither addQuota nor totalSpent; the method is taken from the
\* documented user store (incrementCredits, incrementSpend): it adds the
\* quota to availableUsage and saves the document, totalSpent included.
addQuota(u, quota, totalSpent) ==
  [users EXCEPT ![u].availableUsage = @ + quota, ![u].totalSpent = totalSpent]

\* The credit grant followed by the error answer in place of the success.
AddQuotaUnanswered(r) ==
  LET q == req[r] IN
  /\ q.pc = "addQuota"
  /\ users' = addQuota(q.userId, q.quota, q.spent + q.usd)
  /\ req' = [req EXCEPT ![r] = Respond(q, "serverError", "grant")]
  /\ UNCHANGED <<now, payments, txns, cache, env, probe>>

\* user.totalSpent = (user.totalSpent || 0) + usdAmountForTransaction, then
\* user.addQuota returns and the success payload is sent (lines 1664-1679).
AddQuota(r) ==
  LET q == req[r] IN
  /\ q.pc = "addQuota"
  /\ users' = addQuota(q.userId, q.quota, q.spent + q.usd)
  /\ req' = [req EXCEPT ![r] =
       [q EXCEPT !.pc = "done", !.doc = NoPayment, !.mod = {}, !.t0 = 0,
                 !.spent = 0, !.tid = 0,
                 !.resp = [outcome |-> "success", success |-> TRUE,
                           quotaAdded |-> q.quota, transactionId |-> q.tid,
                           alreadyProcessed |-> FALSE, cause |-> "none"]]]
  /\ UNCHANGED <<now, payments, txns, cache, env, probe>>

(* ------------------------- other operations --------------------------- *)

FreeIds == {p \in PaymentIds : payments[p].status = "absent"}

\* create-crypto-payment: a fresh paymentId, status pending.
CreatePayment ==
  /\ FreeIds # {}
  /\ \E u \in Users, net \in Networks :
       LET p == CHOOSE x \in FreeIds : \A y \in FreeIds : x <= y IN
       payments' = [payments EXCEPT ![p] =
         [userId |-> u, network |-> net, status |-> "pending",
          transactionHash |-> NoHash, expiresAt |-> now + ExpiryMinutes,
          verifiedAmount |-> NullAmount, amount |-> PlanPrice]]
  /\ UNCHANGED <<now, txns, users, cache, req, env, probe>>

\* GET /crypto-status/:paymentId: findByPaymentId, the ownership check and
\* the answer, which carries the record's status.
GetStatus(r) ==
  /\ req[r].pc = "idle"
  /\ \E u \in CallersOf(r), p \in PaymentIds :
       LET b == [IdleReq EXCEPT !.route = "status", !.userId = u,
                                !.paymentId = p, !.odd = ~req[r].odd]
           d == payments[p]
       IN  req' = [req EXCEPT ![r] =
             IF d.status = "absent" THEN Respond(b, "notFound", "none")
             ELSE IF ~Owns(d, u) THEN Respond(b, "forbidden", "none")
             ELSE [Respond(b, "status", d.status) EXCEPT !.resp.success = TRUE]]
  /\ UNCHANGED <<now, payments, txns, users, cache, env, probe>>

\* The sweep's filter with $lte in place of $lt.
SweepableAtExpiry(p) ==
  payments[p].status = "pending" /\ payments[p].expiresAt <= now

\* CryptoPayment.cleanupExpired's filter
Sweepable(p) == payments[p].status = "pending" /\ payments[p].expiresAt < now

\* The collection after updateMany(filter, {status: 'expired'}).
ExpiredBySweep ==
  [p \in PaymentIds |->
     IF Sweepable(p) THEN [payments[p] EXCEPT !.status = "expired"]
     ELSE payments[p]]

\* result.modifiedCount
modifiedCount == Cardinality({p \in PaymentIds : Sweepable(p)})

cleanupExpired ==
  /\ \E p \in PaymentIds : Sweepable(p)
  /\ payments' = ExpiredBySweep
  /\ UNCHANGED <<now, txns, users, cache, req, env, probe>>

Tick ==
  /\ now < MaxTime
  /\ now' = now + 1
  /\ UNCHANGED <<payments, txns, users, cache, req, env, probe>>

(* --------------------------- specification ---------------------------- *)

Step(r) ==
  \/ DupCheck(r) \/ SaveExpired(r) \/ SaveProcessing(r) \/ Verify(r)
  \/ SaveFailed(r) \/ SaveConfirmed(r) \/ FindPlan(r) \/ FindUser(r)
  \/ RateFetch(r) \/ SaveAmount(r) \/ FindTxn(r) \/ CreateTxn(r)
  \/ AddQuota(r)

Next ==
  \/ \E r \in Slots : Start(r) \/ GetStatus(r) \/ Step(r)
  \/ CreatePayment
  \/ cleanupExpired
  \/ Tick

Spec == Init /\ [][Next]_vars

\* One client that calls, and repeats its call whenever it has an answer.
\* Every await of the handler returns (weak fairness of its steps), and the
\* client does repeat (weak fairness of Retry).
NextSeq ==
  \/ Start("r1") \/ Retry("r1") \/ Step("r1")
  \/ CreatePayment
  \/ cleanupExpired
  \/ Tick

SeqSpec ==
  Init /\ [][NextSeq]_vars /\ WF_vars(Step("r1")) /\ WF_vars(Retry("r1"))

\* The fallback rates an operator may configure, in 0.01 USD; 0 is unset
\* (or set to something that is no positive number).
Environments ==
  [SOL_USD_FALLBACK_RATE : {0, 1500}, USDT_USD_FALLBACK_RATE : {0, 99}]

InitAnyEnv == InitStores /\ env \in Environments /\ probe = NoProbe

\* One client that makes one call after the other, with any arguments.
Call(r) ==
  /\ req[r].pc \in {"idle", "done"}
  /\ \E u \in CallersOf(r), p \in PaymentIds, h \in Hashes :
        req' = [req EXCEPT ![r] = Begin(IdleReq, u, p, h)]
  /\ UNCHANGED <<now, payments, txns, users, cache, env, probe>>

NextCalls ==
  \/ Call("r1") \/ Step("r1")
  \/ CreatePayment
  \/ cleanupExpired
  \/ Tick

\* Any deployment, one client.
EnvSpec == InitAnyEnv /\ [][NextCalls]_vars

\* The verifier's RPC calls are awaited with no timeout of the handler's
\* (lines 1487-1516), so nothing makes the verifier return; every other
\* await of the handler returns, the client repeats its call, the sweep
\* runs and the clock advances.
StepButVerify(r) ==
  \/ DupCheck(r) \/ SaveExpired(r) \/ SaveProcessing(r)
  \/ SaveFailed(r) \/ SaveConfirmed(r) \/ FindPlan(r) \/ FindUser(r)
  \/ RateFetch(r) \/ SaveAmount(r) \/ FindTxn(r) \/ CreateTxn(r)
  \/ AddQuota(r)

HangSpec ==
  /\ Init /\ [][NextSeq]_vars
  /\ WF_vars(StepButVerify("r1")) /\ WF_vars(Retry("r1"))
  /\ WF_vars(cleanupExpired) /\ WF_vars(Tick)

\* The save inside user.addQuota rejects (the database is unreachable, the
\* document fails validation): the handler's catch answers 500 (lines
\* 1681-1687) and undoes nothing.
AddQuotaFails(r) ==
  /\ req[r].pc = "addQuota"
  /\ req' = [req EXCEPT ![r] = Respond(req[r], "serverError", "addQuota")]
  /\ UNCHANGED <<now, payments, txns, users, cache, env, probe>>

\* One client, and a database whose user write may fail.
NextFaulty ==
  \/ Call("r1") \/ Step("r1") \/ AddQuotaFails("r1")
  \/ CreatePayment
  \/ cleanupExpired
  \/ Tick

FaultSpec == Init /\ [][NextFaulty]_vars

(* --------------------- functions called directly ---------------------- *)

\* The longest list of logs, and of instructions, a transaction carries.
MaxLogs == 2
MaxInstructions == 2

SeqsUpTo(S, n) == UNION {[1..k -> S] : k \in 0..n}

\* Logs a receipt may carry: another contract's Transfer, a USDT Approval,
\* and USDT Transfers to the wallet (in its checksum spelling), to the
\* wallet below the dust floor, and to another address.
BscLogs ==
  {[address |-> "other", topic |-> "Transfer", from |-> "0xSender",
    to |-> "0xWallet", value |-> 1000],
   [address |-> "usdt", topic |-> "Approval", from |-> "0xSender",
    to |-> "0xWallet", value |-> 1000],
   [address |-> "usdt", topic |-> "Transfer", from |-> "0xSender",
    to |-> "0xWallet", value |-> 1000],
   [address |-> "usdt", topic |-> "Transfer", from |-> "0xSender",
    to |-> "0xWallet", value |-> 0],
   [address |-> "usdt", topic |-> "Transfer", from |-> "0xSender",
    to |-> "0xOther", value |-> 1000]}

\* Confirmation depths of a BSC receipt.
BscDepths == {2, 3, 4}

\* The memo arguments: null, the payment's memo, another memo.
Memos == {NoMemo, "TXN-1", "TXN-2"}

\* Answers of the BSC node.
BscAnswers ==
  [up : BOOLEAN,
   receipt : [found : BOOLEAN, status : {0, 1}, depth : BscDepths,
              logs : SeqsUpTo(BscLogs, MaxLogs)],
   tx : [found : BOOLEAN, data : {"none", "TXN-1"}]]

\* Instructions a Solana transaction may carry: system transfers to the
\* wallet with no data, with fewer than 12 bytes, with 0 and with 1.00 SOL,
\* a system transfer to another account, a memo, another program's.
SolInstructions ==
  {[programId |-> "system", from |-> "Sender", to |-> "SolWallet",
    data |-> NoData],
   [programId |-> "system", from |-> "Sender", to |-> "SolWallet",
    data |-> [kind |-> "short", lamports |-> 0]],
   [programId |-> "system", from |-> "Sender", to |-> "SolWallet",
    data |-> [kind |-> "full", lamports |-> 0]],
   [programId |-> "system", from |-> "Sender", to |-> "SolWallet",
    data |-> [kind |-> "full", lamports |-> 100]],
   [programId |-> "system", from |-> "Sender", to |-> "Other",
    data |-> [kind |-> "full", lamports |-> 100]],
   [programId |-> "memo", from |-> "none", to |-> "none",
    data |-> [kind |-> "short", lamports |-> 0]],
   [programId |-> "other", from |-> "Sender", to |-> "SolWallet",
    data |-> [kind |-> "full", lamports |-> 100]]}

\* currentSlot minus the transaction's slot.
SolDepths == {-1, 5, 40}

\* Answers of the Solana node; a transaction that is found has a status.
SolAnswers ==
  {a \in [up : BOOLEAN, status : BOOLEAN, found : BOOLEAN, err : BOOLEAN,
          depth : SolDepths, meta : BOOLEAN,
          accountKeys : {{"Sender"}, {"Sender", "SolWallet"}},
          delta : {0, 100},
          instructions : SeqsUpTo(SolInstructions, MaxInstructions)] :
     a.found => a.status}

\* Verified amounts (0.01 token) and rates (0.01 USD) of a conversion.
ConvAmounts == {1, 9, 45, 100, 1000}
ConvRates == {99, 100, 1500, 2000}

\* Payment records a collection may hold when the sweep runs.
SweepRecords ==
  {NoPayment} \cup
  {[userId |-> "u1", network |-> "SOL", status |-> st,
    transactionHash |-> IF st \in {"pending", "expired"} THEN NoHash
                        ELSE "hSol",
    expiresAt |-> e,
    verifiedAmount |-> IF st = "confirmed" THEN 100 ELSE NullAmount,
    amount |-> PlanPrice] :
     st \in {"pending", "processing", "confirmed", "failed", "expired"},
     e \in ExpiryMinutes..(MaxTime + ExpiryMinutes)}

\* A function is about to be called with arguments drawn from the sets
\* above; the sweep is called on any collection at any time.
InitUnit ==
  /\ txns = <<>>
  /\ users = [u \in Users |->
               [availableUsage |-> DefaultAvailableUsage, totalSpent |-> 0]]
  /\ cache = [solUsd |-> [value |-> 0, expiresAt |-> 0],
              usdtUsd |-> [value |-> 0, expiresAt |-> 0]]
  /\ req = [r \in Slots |-> IdleReq]
  /\ env = NoFallbacks
  /\ \/ /\ now = 0
        /\ payments = [p \in PaymentIds |-> NoPayment]
        /\ \/ \E rpc \in BscAnswers, to \in {"0xWallet", "0xwallet"},
                 memo \in Memos :
                 probe = [fn |-> "verifyBEP20Transaction", rpc |-> rpc,
                          expectedToAddress |-> to, memo |-> memo,
                          returned |-> FALSE, result |-> NotVerified("none")]
           \/ \E rpc \in SolAnswers, amt \in {NullAmount, 100},
                 memo \in {NoMemo, "TXN-1"} :
                 probe = [fn |-> "verifySOLTransaction", rpc |-> rpc,
                          expectedToAddress |-> "SolWallet",
                          expectedAmount |-> amt, memo |-> memo,
                          returned |-> FALSE, result |-> NotVerified("none")]
           \/ \E a \in ConvAmounts, rate \in ConvRates, net \in Networks :
                 probe = [fn |-> "settle", amount |-> a, rate |-> rate,
                          network |-> net, returned |-> FALSE,
                          q |-> IdleReq, txn |-> NoTransaction]
     \/ /\ now \in 0..MaxTime
        /\ payments \in [PaymentIds -> SweepRecords]
        /\ probe = [fn |-> "cleanupExpired", before |-> payments,
                    counts |-> <<>>]

CallVerifyBEP20 ==
  /\ probe.fn = "verifyBEP20Transaction"
  /\ ~probe.returned
  /\ probe' = [probe EXCEPT
                 !.returned = TRUE,
                 !.result = verifyBEP20Transaction(
                              probe.rpc, probe.expectedToAddress, probe.memo)]
  /\ UNCHANGED <<now, payments, txns, users, cache, env, req>>

CallVerifySOL ==
  /\ probe.fn = "verifySOLTransaction"
  /\ ~probe.returned
  /\ probe' = [probe EXCEPT
                 !.returned = TRUE,
                 !.result = verifySOLTransaction(
                              probe.rpc, probe.expectedToAddress,
                              probe.expectedAmount, probe.memo)]
  /\ UNCHANGED <<now, payments, txns, users, cache, env, req>>

\* The conversion and the Transaction of a settlement (lines 1572-1661) on
\* a verified amount and a rate: q is the request after the conversion,
\* txn the document handed to Transaction.create when the floor is passed.
CallSettle ==
  /\ probe.fn = "settle"
  /\ ~probe.returned
  /\ LET q0 == [IdleReq EXCEPT
                  !.pc = "findUser", !.userId = "u1", !.paymentId = 1,
                  !.txnHash = "hSol", !.ver = probe.amount,
                  !.doc = [NoPayment EXCEPT
                             !.userId = "u1", !.network = probe.network,
                             !.status = "confirmed",
                             !.transactionHash = "hSol",
                             !.expiresAt = ExpiryMinutes,
                             !.verifiedAmount = probe.amount,
                             !.amount = PlanPrice]]
         q == AfterRate(q0, probe.rate)
     IN  probe' = [probe EXCEPT
                     !.returned = TRUE,
                     !.q = q,
                     !.txn = IF q.pc = "saveAmount"
                             THEN NewTransaction(q, 1) ELSE NoTransaction]
  /\ UNCHANGED <<now, payments, txns, users, cache, env, req>>

\* cleanupExpired called, and called again.
CallCleanupExpired ==
  /\ probe.fn = "cleanupExpired"
  /\ Len(probe.counts) < 2
  /\ payments' = ExpiredBySweep
  /\ probe' = [probe EXCEPT !.counts = Append(@, modifiedCount)]
  /\ UNCHANGED <<now, txns, users, cache, env, req>>

NextUnit ==
  \/ CallVerifyBEP20
  \/ CallVerifySOL
  \/ CallSettle
  \/ CallCleanupExpired

UnitSpec == InitUnit /\ [][NextUnit]_vars

(* ============================== claims ================================ *)

Done(r) == req[r].pc = "done"

C2_ConcurrentSettlesOnce ==
  \A a, b \in Slots :
     ( /\ a # b /\ Done(a) /\ Done(b)
       /\ req[a].paymentId = req[b].paymentId
       /\ req[a].txnHash = req[b].txnHash
       /\ req[a].quota > 0 /\ req[b].quota > 0 )
     => /\ Cardinality(TxnsOf(req[a].txnHash)) = 1
        /\ users[req[a].userId].availableUsage
              = DefaultAvailableUsage + req[a].quota

\* C3: when a call has succeeded, a second call in sequence with the same
\* arguments leaves exactly one Transaction and answers with a success
\* payload whose quotaAdded and transactionId are those of the first call.
C3_IdempotentRetry ==
  \A r \in Slots :
     (Done(r) /\ req[r].prev.resp.success)
     => /\ Cardinality(TxnsOf(req[r].txnHash)) = 1
        /\ req[r].resp.success
        /\ req[r].resp.quotaAdded = req[r].prev.resp.quotaAdded
        /\ req[r].resp.transactionId = req[r].prev.resp.transactionId

\* The settlement of a payment is complete.
Settled(p) ==
  LET d == payments[p]
      T == TxnsOf(d.transactionHash) IN
  /\ d.status = "confirmed"
  /\ Cardinality(T) = 1
  /\ \A i \in T :
        users[d.userId].availableUsage
          = DefaultAvailableUsage + txns[i].quotaAmount

\* A call stopped with an error after the payment was marked confirmed.
StoppedAfterWrite(r) ==
  /\ Done(r)
  /\ req[r].resp.outcome = "serverError"
  /\ payments[req[r].paymentId].status = "confirmed"

\* C4: if a call stops with an error after one of the settlement writes,
\* repeating the same call eventually completes the settlement.
C4_RetryCompletes ==
  \A r \in {"r1"} :
     [](StoppedAfterWrite(r) =>
          <>(req[r].paymentId \in PaymentIds /\ Settled(req[r].paymentId)))

\* C5: no two confirmed CryptoPayment records hold the same transactionHash.
C5_ConfirmedHashUnique ==
  \A p, o \in PaymentIds :
     ( /\ p # o
       /\ payments[p].status = "confirmed"
       /\ payments[o].status = "confirmed" )
     => payments[p].transactionHash # payments[o].transactionHash

\* C6: when the duplicate-hash query of a call runs while another user's
\* payment is confirmed with the submitted hash, the call ends there with
\* the duplicate-hash error: no payment is written (the caller's payment
\* does not become confirmed), no Transaction is created and no balance
\* changes.
C6_CrossUserHashRejected ==
  [][\A r \in Slots :
       ( /\ req[r].pc = "dupCheck"
         /\ req'[r] # req[r]
         /\ \E a \in PaymentIds :
               /\ a # req[r].paymentId
               /\ payments[a].status = "confirmed"
               /\ payments[a].transactionHash = req[r].txnHash
               /\ payments[a].userId # req[r].userId )
       => /\ req'[r].pc = "done"
          /\ req'[r].resp.outcome = "duplicateHash"
          /\ payments' = payments
          /\ txns' = txns
          /\ users' = users]_vars

\* U2's call was rejected for a hash that U1's confirmed payment holds.
C6_Witness ==
  \E r \in Slots, a \in PaymentIds :
     /\ Done(r)
     /\ req[r].resp.outcome = "duplicateHash"
     /\ a # req[r].paymentId
     /\ payments[a].status = "confirmed"
     /\ payments[a].transactionHash = req[r].txnHash
     /\ payments[a].userId # req[r].userId
     /\ payments[req[r].paymentId].status = "pending"
     /\ users[req[r].userId].availableUsage = DefaultAvailableUsage

\* C7: every write of a CryptoPayment moves its status forward along
\* pending -> processing -> {confirmed, failed, expired} or pending ->
\* expired; confirmed, failed and expired are final.
C7_StatusForwardOnly ==
  [][\A p \in PaymentIds :
       payments'[p].status # payments[p].status
       => \/ /\ payments[p].status = "absent"
             /\ payments'[p].status = "pending"
          \/ /\ payments[p].status = "pending"
             /\ payments'[p].status \in {"processing", "expired"}
          \/ /\ payments[p].status = "processing"
             /\ payments'[p].status \in {"confirmed", "failed", "expired"}]_vars

\* A call that arrived after expiresAt and loaded the payment as pending.
LateOnPending(r) == req[r].late /\ req[r].st0 = "pending"

\* C8 as stated: a call made after expiresAt on a payment that is still
\* pending ends with the Expired error.
C8_LateCallExpires ==
  \A r \in Slots :
     (Done(r) /\ LateOnPending(r)) => req[r].resp.outcome = "expired"

\* C8 as amended: a call made after expiresAt on a payment that is still
\* pending ends with the Expired error, or with the duplicate-hash error
\* when another confirmed payment holds the hash (the record then stays as
\* it is).  It never sets the record to processing, never stores the hash
\* and never calls a chain verifier, and the save that precedes the Expired
\* error sets the record to expired and writes nothing else.
C8_LateCallExpiresOrDuplicate ==
  /\ [](\A r \in Slots :
          LateOnPending(r)
          => /\ req[r].pc \in {"dupCheck", "saveExpired", "done"}
             /\ "transactionHash" \notin req[r].mod
             /\ req[r].doc.status # "processing"
             /\ req[r].ver = NullAmount
             /\ Done(r) => req[r].resp.outcome \in {"expired", "duplicateHash"})
  /\ [][\A r \in Slots :
          (LateOnPending(r) /\ req'[r] # req[r])
          => \/ /\ req[r].pc = "dupCheck"
                /\ payments' = payments
                /\ req'[r].resp.outcome = "duplicateHash"
                      <=> HashUsedElsewhere(req[r].paymentId, req[r].txnHash)
             \/ /\ req[r].pc = "saveExpired"
                /\ req'[r].resp.outcome = "expired"
                /\ payments' = [payments EXCEPT
                                  ![req[r].paymentId].status = "expired"]]_vars

\* A late call on a pending payment ended with Expired: the record is
\* expired and holds no hash.
C8_Witness ==
  \E r \in Slots :
     /\ Done(r) /\ LateOnPending(r)
     /\ req[r].resp.outcome = "expired"
     /\ payments[req[r].paymentId].status = "expired"
     /\ payments[req[r].paymentId].transactionHash = NoHash

\* C9: the expiry of a payment that has been moved to processing is never
\* checked again: no call that finds the payment processing or failed is
\* rejected with the Expired error.
C9_ExpiryGatesFirstSubmissionOnly ==
  \A r \in Slots :
     (Done(r) /\ req[r].resp.outcome = "expired")
     => req[r].st0 \in {"pending", "expired"}

\* C10: a call whose verified transfer converts to less than the price of
\* one credit ends with InsufficientAmount at the conversion, and that step
\* creates no Transaction and leaves every user's balance and cumulative
\* spend unchanged.
C10_DustRejected ==
  /\ [](\A r \in Slots :
          (req[r].usd # NullAmount /\ req[r].usd < USD_PER_CREDIT)
          => /\ Done(r)
             /\ req[r].resp.outcome = "insufficientAmount"
             /\ req[r].resp.transactionId = 0)
  /\ [][\A r \in Slots :
          (req[r].pc # "done" /\ req'[r].resp.outcome = "insufficientAmount")
          => txns' = txns /\ users' = users]_vars

\* A verified transfer worth less than one credit was rejected.
C10_Witness ==
  \E r \in Slots :
     /\ Done(r)
     /\ req[r].resp.outcome = "insufficientAmount"
     /\ req[r].ver > 0
     /\ req[r].usd > 0
     /\ req[r].usd < USD_PER_CREDIT
     /\ TxnsOf(req[r].txnHash) = {}
     /\ users[req[r].userId].availableUsage = DefaultAvailableUsage
     /\ users[req[r].userId].totalSpent = 0

\* C11: a call on a BEP20 payment that verified the 10 USDT transfer (5
\* confirmations) and converted it at USDT/USD 1.0 into 22 credits succeeds
\* with quotaAdded = 22, leaves the payment confirmed and exactly one
\* Transaction with the hash.
C11_Bep20EndToEnd ==
  \A r \in Slots :
     ( /\ Done(r)
       /\ req[r].txnHash = "hBep"
       /\ req[r].ver = 1000
       /\ req[r].quota = 22 )
     => /\ req[r].resp.success
        /\ req[r].resp.quotaAdded = 22
        /\ payments[req[r].paymentId].status = "confirmed"
        /\ Cardinality(TxnsOf("hBep")) = 1

\* C12: after a call whose verified transfer converted to zero credits,
\* the payment record is failed.
C12_DustMarksFailed ==
  \A r \in Slots :
     (Done(r) /\ req[r].resp.outcome = "insufficientAmount")
     => payments[req[r].paymentId].status = "failed"

\* C13: no step changes the verifiedAmount or the transactionHash of a
\* record that is confirmed.
C13_ConfirmedImmutable ==
  [][\A p \in PaymentIds :
       payments[p].status = "confirmed"
       => /\ payments'[p].verifiedAmount = payments[p].verifiedAmount
          /\ payments'[p].transactionHash = payments[p].transactionHash]_vars

C15_FewConfirmationsNotFailed ==
  [][\A r \in Slots :
       ( /\ req[r].pc = "saveFailed"
         /\ req[r].resp.cause = "needs confirmations"
         /\ req'[r] # req[r] )
       => payments'[req[r].paymentId].status # "failed"]_vars

\* C16: a call whose verifier could not reach its RPC node ends with the
\* UpstreamUnavailable outcome, not with VerificationFailed.
C16_RpcErrorIsUpstreamUnavailable ==
  \A r \in Slots :
     (Done(r) /\ req[r].resp.cause = "rpc error")
     => req[r].resp.outcome = "upstreamUnavailable"

\* The call that slot r begins in this step is made with its fields present
\* on an existing payment by a user who did not create it.
BeginsAsStranger(r) ==
  /\ req[r].pc \in {"idle", "done"}
  /\ req'[r] # req[r]
  /\ req'[r].route = "status" \/ req'[r].txnHash # NoHash
  /\ payments[req'[r].paymentId].status # "absent"
  /\ payments[req'[r].paymentId].userId # req'[r].userId

\* C17: a verify-crypto-transaction or crypto-status call by a user who is
\* not the creator of the payment is answered Forbidden at once, and writes
\* no payment, no Transaction and no user.
C17_StrangerForbidden ==
  [][\A r \in Slots :
       BeginsAsStranger(r)
       => /\ req'[r].pc = "done"
          /\ req'[r].resp.outcome = "forbidden"
          /\ payments' = payments
          /\ txns' = txns
          /\ users' = users]_vars

\* Both routes have refused a stranger.
C17_Witness ==
  \E a, b \in Slots :
     /\ Done(a) /\ req[a].route = "verify"
     /\ Done(b) /\ req[b].route = "status"
     /\ req[a].resp.outcome = "forbidden"
     /\ req[b].resp.outcome = "forbidden"
     /\ payments[req[a].paymentId].userId # req[a].userId
     /\ payments[req[b].paymentId].userId # req[b].userId

\* The rate request of slot r's call, for network net, returns in this step
\* and has failed.
FeedFails(r, net) ==
  /\ req[r].pc = "rateFetch"
  /\ req[r].doc.network = net
  /\ req'[r] # req[r]
  /\ req'[r].feed = 0

\* C18: when its upstream request fails, getUsdtUsdRate does not fail: it
\* returns USDT_USD_FALLBACK_RATE when that is a positive number and 1.0
\* otherwise (the conversion uses that rate), and it caches the returned
\* value for 60 seconds: the entry it writes holds that value and expires
\* 60 s after it is written.
C18_UsdtRateFallsBack ==
  [][\A r \in Slots :
       FeedFails(r, "BEP20")
       => LET v == IF env.USDT_USD_FALLBACK_RATE > 0
                   THEN env.USDT_USD_FALLBACK_RATE ELSE UsdtDefaultFallback
          IN  /\ req'[r].resp.outcome # "serverError"
              /\ req'[r].usd = req[r].ver * v
              /\ cache'.usdtUsd.value = v
              /\ cache'.usdtUsd.expiresAt = now + ONE_MINUTE_MS]_vars

\* The part of C18 that does not depend on when the expiry is counted from:
\* the fallback is returned, used and cached, expiring one minute after the
\* call read the clock.
UsdtFallbackReturnedAndStored ==
  [][\A r \in Slots :
       FeedFails(r, "BEP20")
       => LET v == IF env.USDT_USD_FALLBACK_RATE > 0
                   THEN env.USDT_USD_FALLBACK_RATE ELSE UsdtDefaultFallback
          IN  /\ req'[r].resp.outcome # "serverError"
              /\ req'[r].usd = req[r].ver * v
              /\ cache'.usdtUsd.value = v
              /\ cache'.usdtUsd.expiresAt = req[r].t0 + ONE_MINUTE_MS]_vars

\* C19: a value stored in the cache at time t is served, without an
\* upstream request, to every call made before t + 60 s, and to none made
\* at or after t + 60 s.  A call is served from the cache exactly while the
\* clock is below the entry's expiry, so the entry a rate call writes
\* expires 60 s after the moment it is written.
C19_CacheLivesSixtySeconds ==
  [][\A r \in Slots :
       ( /\ req[r].pc = "rateFetch"
         /\ req'[r] # req[r]
         /\ cache' # cache )
       => cache'[CacheKey(req[r].doc.network)].expiresAt
            = now + ONE_MINUTE_MS]_vars

\* C20: when its upstream request fails (the cache held no unexpired rate
\* when the call began), getSolUsdRate returns SOL_USD_FALLBACK_RATE when
\* that is a positive number, and otherwise fails: the call ends with the
\* server error.
C20_SolRateFailsOrFallsBack ==
  [][\A r \in Slots :
       FeedFails(r, "SOL")
       => IF env.SOL_USD_FALLBACK_RATE > 0
          THEN /\ req'[r].resp.outcome # "serverError"
               /\ req'[r].usd = req[r].ver * env.SOL_USD_FALLBACK_RATE
          ELSE /\ req'[r].pc = "done"
               /\ req'[r].resp.outcome = "serverError"
               /\ req'[r].resp.cause = "rateUnavailable"
               /\ req'[r].usd = NullAmount]_vars

\* The SOL feed failed with a fallback configured, and the transfer was
\* converted at the fallback.
C20_Witness ==
  \E r \in Slots :
     /\ req[r].feed = 0
     /\ req[r].txnHash = "hSol"
     /\ env.SOL_USD_FALLBACK_RATE > 0
     /\ req[r].usd = req[r].ver * env.SOL_USD_FALLBACK_RATE
     /\ req[r].quota > 0

\* C21: every payment that enters processing eventually leaves it for
\* confirmed or failed, also when the chain verifier never returns.
C21_ProcessingEventuallyLeaves ==
  \A p \in PaymentIds :
     (payments[p].status = "processing")
       ~> (payments[p].status \in {"confirmed", "failed"})

\* The direct call of function fn has returned.
Returned(fn) == probe.fn = fn /\ probe.returned

\* C22: verifyBEP20Transaction returns verified = true only if the receipt
\* exists with status 1, is at least 3 blocks deep and carries a Transfer
\* log of the USDT contract whose recipient is the expected address up to
\* case and whose amount is at least 0.01; for a successful receipt at
\* depth 2 it returns verified = false with the needs-confirmations error
\* stating 2.
C22_Bep20VerifiedOnlyIf ==
  Returned("verifyBEP20Transaction")
  => LET receipt == probe.rpc.receipt
         res == probe.result IN
     /\ res.verified
        => /\ probe.rpc.up
           /\ receipt.found
           /\ receipt.status = 1
           /\ receipt.depth >= BscMinConfirmations
           /\ \E i \in DOMAIN receipt.logs :
                 /\ receipt.logs[i].address = "usdt"
                 /\ receipt.logs[i].topic = "Transfer"
                 /\ ToLower(receipt.logs[i].to)
                      = ToLower(probe.expectedToAddress)
                 /\ receipt.logs[i].value >= BscMinAmount
                 /\ res.amount = receipt.logs[i].value
     /\ (probe.rpc.up /\ receipt.found /\ receipt.status = 1
           /\ receipt.depth = 2)
        => /\ ~res.verified
           /\ res.error = "needs confirmations"
           /\ res.current = 2

\* A transfer was verified whose recipient is spelled in another case than
\* the expected address, behind a log of another contract.
C22_Witness ==
  /\ Returned("verifyBEP20Transaction")
  /\ probe.result.verified
  /\ Len(probe.rpc.receipt.logs) = 2
  /\ probe.rpc.receipt.logs[1].address = "other"
  /\ probe.rpc.receipt.logs[2].to # probe.expectedToAddress
  /\ probe.rpc.receipt.depth = BscMinConfirmations

\* C23: verifySOLTransaction never fails because the depth is low (its
\* verdict is the same at every depth), and when it returns verified =
\* true the confirmationCount is max(currentSlot - slot, 32).
C23_SolDepthAdvisory ==
  Returned("verifySOLTransaction")
  => /\ \A d \in SolDepths :
          verifySOLTransaction([probe.rpc EXCEPT !.depth = d],
                               probe.expectedToAddress,
                               probe.expectedAmount, probe.memo).verified
            = probe.result.verified
     /\ probe.result.verified
        => /\ probe.result.confirmationCount
                = IF probe.rpc.depth > SolMinConfirmations
                  THEN probe.rpc.depth ELSE SolMinConfirmations
           /\ probe.result.confirmationCount >= SolMinConfirmations

\* A transfer 5 slots deep was verified and reported with 32 confirmations.
C23_Witness ==
  /\ Returned("verifySOLTransaction")
  /\ probe.result.verified
  /\ probe.rpc.depth = 5
  /\ probe.result.confirmationCount = SolMinConfirmations

\* What C24 compares of two results.
Verdict(res) ==
  <<res.verified, res.amount, res.fromAddress, res.confirmationCount>>

\* C24: for both verifiers, a call with any other memo argument (a memo or
\* null) against the same answers of the node returns the same verified
\* flag, amount, sender and confirmation count.
C24_MemoNeverMatters ==
  /\ Returned("verifyBEP20Transaction")
     => \A m \in Memos :
           Verdict(verifyBEP20Transaction(probe.rpc, probe.expectedToAddress,
                                          m))
             = Verdict(probe.result)
  /\ Returned("verifySOLTransaction")
     => \A m \in Memos :
           Verdict(verifySOLTransaction(probe.rpc, probe.expectedToAddress,
                                        probe.expectedAmount, m))
             = Verdict(probe.result)

\* The exact conversion of C25: a * r in units of 0.0001 USD.
ExactUsd == probe.amount * probe.rate

\* C25: a settlement that succeeds on verified amount a and rate r grants
\* floor(a * r / 0.45) credits and its Transaction records round(a * r *
\* 100) cents, that number of credits (at least 1), status succeeded and
\* paymentMethod crypto.
C25_CreditsAreFloorOfUsd ==
  (Returned("settle") /\ probe.q.pc = "saveAmount"
     /\ ValidTransaction(probe.txn))
  => /\ probe.q.quota = ExactUsd \div USD_PER_CREDIT
     /\ probe.txn.quotaAmount = probe.q.quota
     /\ probe.txn.quotaAmount >= 1
     /\ probe.txn.amount = (ExactUsd + 50) \div 100
     /\ probe.txn.status = "succeeded"
     /\ probe.txn.paymentMethod = "crypto"

\* The collection that C26 describes after a sweep of collection c at the
\* current time.
SweptExactly(c) ==
  [p \in PaymentIds |->
     IF c[p].status = "pending" /\ c[p].expiresAt < now
     THEN [c[p] EXCEPT !.status = "expired"] ELSE c[p]]

RECURSIVE QuotaSum(_, _)
\* The sum of quotaAmount over the first n Transactions owned by u.
QuotaSum(u, n) ==
  IF n = 0 THEN 0
  ELSE QuotaSum(u, n - 1)
         + IF txns[n].userId = u /\ txns[n].paymentMethod = "crypto"
           THEN txns[n].quotaAmount ELSE 0

\* C27: whenever no request is in flight, each user's balance has grown by
\* the sum of quotaAmount over the user's crypto Transactions, also after a
\* request has failed part-way.
C27_GrantsMatchLedger ==
  (\A r \in Slots : req[r].pc \in {"idle", "done"})
  => \A u \in Users :
        users[u].availableUsage
          = DefaultAvailableUsage + QuotaSum(u, Len(txns))

\* C28: whenever verifySOLTransaction returns verified = true, the amount
\* it returns is a number greater than 0.
C28_SolVerifiedAmountPositive ==
  (Returned("verifySOLTransaction") /\ probe.result.verified)
  => /\ probe.result.amount # NullAmount
     /\ probe.result.amount > 0

\* C29: every success response of verify-crypto-transaction carries the
\* transactionId and quotaAdded of a Transaction whose userId is the
\* requesting user.
C29_SuccessNamesOwnTransaction ==
  \A r \in Slots :
     (Done(r) /\ req[r].route = "verify" /\ req[r].resp.success)
     => /\ req[r].resp.transactionId \in DOMAIN txns
        /\ txns[req[r].resp.transactionId].userId = req[r].userId
        /\ txns[req[r].resp.transactionId].quotaAmount
             = req[r].resp.quotaAdded

\* C30: a verify-crypto-transaction call that ends without success has
\* created no Transaction and changed no user: its last step writes
\* neither, a call that has created its Transaction ends with success, and
\* every write of a Transaction or a user is made by a call on that path.
C30_FailedCallWritesNoLedger ==
  /\ [][\A r \in Slots :
          ( /\ req'[r] # req[r]
            /\ req'[r].pc = "done"
            /\ ~req'[r].resp.success )
          => /\ txns' = txns
             /\ users' = users
             /\ req[r].pc # "addQuota"]_vars
  /\ [][(txns' # txns \/ users' # users)
          => \E r \in Slots :
                /\ req'[r] # req[r]
                /\ \/ req[r].pc = "createTxn" /\ req'[r].pc = "addQuota"
                   \/ req[r].pc = "addQuota" /\ req'[r].resp.success]_vars

\* A call ended with VerificationFailed and the ledger and the balances are
\* as they were at the start.
C30_Witness ==
  \E r \in Slots :
     /\ Done(r)
     /\ req[r].resp.outcome = "verificationFailed"
     /\ txns = <<>>
     /\ \A u \in Users :
           /\ users[u].availableUsage = DefaultAvailableUsage
           /\ users[u].totalSpent = 0

=============================================================================
